---- MODULE Spec2Model ----
(***************************************************************************)
(* A model of the read-only APFS access core: fs/apfs/extents.c (extent    *)
(* resolver, per-inode extent cache, block mapping) and fs/apfs/super.c    *)
(* (Fletcher-64, mount and unmount, inode slab).                           *)
(*                                                                         *)
(* Two specifications share the variables:                                 *)
(*   Spec       threads calling apfs_get_block on inodes of a mounted      *)
(*              volume, with the inode slab recycling objects;             *)
(*   SpecMount  apfs_fill_super / apfs_put_super on a disk image.          *)
(*                                                                         *)
(* u64 arithmetic is kept modulo 2^WordBits; the widths are scaled down    *)
(* (see the definitions below) so that the model checker can enumerate     *)
(* them, with the proportions of the code kept.                            *)
(***************************************************************************)
EXTENDS Integers, Sequences, FiniteSets, TLC

\* ------------------------------------------------------------------------
\* Widths and bounds
\* ------------------------------------------------------------------------

\* Width of a u64 in the model (64 in the code).
WordBits == 8

\* inode->i_blkbits == sb->s_blocksize_bits (12..16 in the code).
BlkBits == 2

\* Largest logical block number a caller asks for.  The VFS only asks for
\* blocks below s_maxbytes (super.c:616), so iblock << i_blkbits never
\* loses bits: (MaxIblock + 1) * BlockSize stays below 2^(WordBits-1).
MaxIblock == 2

Word == 2 ^ WordBits

BlockSize == 2 ^ BlkBits

\* The low 56 of 64 bits of len_and_flags are the length; in the model the
\* two top bits of a word are the flags.
APFS_FILE_EXTENT_LEN_MASK == (2 ^ (WordBits - 2)) - 1

\* sizeof(struct apfs_file_extent_val): three 64-bit fields.
ExtValSize == 24

\* sizeof(struct apfs_file_extent_key): 64-bit header and logical address.
ExtKeySize == 16

\* Error numbers (returned negated).
ENOMEM == 12

EIO == 5

EINVAL == 22

ENODATA == 61

EROFS == 30

EFSCORRUPTED == 117

\* The threads calling into the core concurrently.
Threads == {"t1", "t2"}

\* Nobody: the value of a free lock.
NoThread == "none"

\* Slab objects of apfs_inode_cachep.
Inodes == {1, 2}

\* Files of the volume, named by their extent id; 0 is "no file".
Files == {1, 2}

\* ------------------------------------------------------------------------
\* u64 helpers
\* ------------------------------------------------------------------------

U64(x) == x % Word

Shl(x, n) == (x * (2 ^ n)) % Word

Shr(x, n) == x \div (2 ^ n)

\* x & mask, for mask = 2^k - 1.
AndMask(x, mask) == x % (mask + 1)

\* ------------------------------------------------------------------------
\* The catalog: file-extent records on disk.  The disk is input: records
\* may be damaged, and the code is expected to cope.
\* ------------------------------------------------------------------------

Rec(la, lf, phys, vlen, klen) ==
    [logical_addr |-> la, len_and_flags |-> lf, phys_block_num |-> phys,
     len |-> vlen, key_len |-> klen]

GoodRec(la, lf, phys) == Rec(la, lf, phys, ExtValSize, ExtKeySize)

FlagBit == APFS_FILE_EXTENT_LEN_MASK + 1

\* A well-formed volume: file 1 has a two-block extent (with a flag bit
\* set in len_and_flags) followed by a one-block hole; file 2 has one
\* three-block extent.
CatalogClean ==
    [f \in Files |->
        IF f = 1
        THEN {GoodRec(0, 2 * BlockSize + FlagBit, 5),
              GoodRec(2 * BlockSize, BlockSize, 0)}
        ELSE {GoodRec(0, 3 * BlockSize, 9)}]

\* Overlapping records (file 1) and records that do not start on a block
\* boundary, a mapped extent and a hole (file 2).
CatalogOverlap ==
    [f \in Files |->
        IF f = 1
        THEN {GoodRec(0, 2 * BlockSize, 5),
              GoodRec(BlockSize, BlockSize, 7)}
        ELSE {GoodRec(1, BlockSize, 9),
              GoodRec(BlockSize + 2, BlockSize, 0)}]

\* Damaged records: a length that is not a multiple of the block size and
\* a zero length (file 1); a wrong key size, a wrong value size and a good
\* record (file 2).
CatalogDamaged ==
    [f \in Files |->
        IF f = 1
        THEN {GoodRec(0, BlockSize + 2, 5),
              GoodRec(2 * BlockSize, 0, 6)}
        ELSE {Rec(0, BlockSize, 9, ExtValSize, ExtKeySize + 8),
              Rec(BlockSize, BlockSize, 7, ExtValSize - 8, ExtKeySize),
              GoodRec(2 * BlockSize, BlockSize, 0)}]

Catalogs == {CatalogClean, CatalogOverlap, CatalogDamaged}

\* ------------------------------------------------------------------------
\* State
\* ------------------------------------------------------------------------

VARIABLES
    catalog,          \* the file-extent records of the mounted volume
    i_extent_id,      \* per slab object: the file it stands for, 0 if free
    i_cached_extent,  \* per slab object: apfs_inode_info.i_cached_extent
    i_extent_lock,    \* per slab object: the thread holding i_extent_lock
    th                \* per thread: its position in apfs_get_block and locals

extvars == <<catalog, i_extent_id, i_cached_extent, i_extent_lock, th>>

VARIABLES
    img,      \* the disk image
    m,        \* apfs_fill_super: position, return value, failing test, options
    sb,       \* struct super_block: s_blocksize, s_magic, s_fs_info, s_root
    sbi,      \* struct apfs_sb_info, and whether the allocation is live
    res,      \* per resource: how often it was acquired and released
    m_reads   \* the object blocks read since the mount began

mountvars == <<img, m, sb, sbi, res, m_reads>>

VARIABLES
    cont,     \* the container: nx_block_count and its object map's entries
    st        \* apfs_statfs: position, locals, the kstatfs buffer, resources

statvars == <<cont, st>>

Extent(la, phys, len) ==
    [logical_addr |-> la, phys_block_num |-> phys, len |-> len]

\* The local "struct apfs_file_extent ext" of apfs_get_block before
\* apfs_extent_read filled it; it is not read on the error path.
NoExtent == Extent(0, 0, 0)

NoRec == Rec(0, 0, 0, 0, 0)

\* What fresh slab memory may hold (zeroes, or a fill pattern) in the
\* fields init_once leaves alone.
UninitValues == {0, BlockSize + 1}

\* The key and the query of one call of apfs_extent_read: how many of
\* each are allocated and not yet freed.
NoAlloc == [key |-> 0, query |-> 0]

Idle ==
    [pc |-> "idle", inode |-> 0, iblock |-> 0, create |-> FALSE,
     req_size |-> 0, b_size |-> 0, ext |-> NoExtent, ret |-> 0,
     hit |-> FALSE, looked |-> FALSE, found |-> NoRec,
     mapped |-> FALSE, b_blocknr |-> 0, alloc |-> NoAlloc]

\* ------------------------------------------------------------------------
\* fs/apfs/extents.c
\* ------------------------------------------------------------------------

\* u64 iaddr = iblock << inode->i_blkbits;
Iaddr(iblock) == Shl(iblock, BlkBits)

\* The cache test with <= for <: one byte past the extent is a hit.
CacheCoversOffByOne(cache, iaddr) ==
    /\ iaddr >= cache.logical_addr
    /\ iaddr <= U64(cache.logical_addr + cache.len)

\* The cache test with > for >=: the first byte of the extent is a miss.
CacheCoversStrict(cache, iaddr) ==
    /\ iaddr > cache.logical_addr
    /\ iaddr < U64(cache.logical_addr + cache.len)

\* iaddr >= cache->logical_addr && iaddr < cache->logical_addr + cache->len
CacheCovers(cache, iaddr) ==
    /\ iaddr >= cache.logical_addr
    /\ iaddr < U64(cache.logical_addr + cache.len)

\* query->len != sizeof(*ext) || query->key_len != sizeof(*ext_key)
BadRecordSize(r) == r.len # ExtValSize \/ r.key_len # ExtKeySize

\* ext_len = le64_to_cpu(ext->len_and_flags) & APFS_FILE_EXTENT_LEN_MASK;
ExtLen(r) == AndMask(r.len_and_flags, APFS_FILE_EXTENT_LEN_MASK)

\* ext_len & (sb->s_blocksize - 1)
BadExtentLength(ext_len) == AndMask(ext_len, BlockSize - 1) # 0

\* extent->logical_addr, ->phys_block_num, ->len as decoded from the record
DecodeExtent(r) == Extent(r.logical_addr, r.phys_block_num, ExtLen(r))

\* The catalog B-tree lookup for a file-extent key (btree.c is not part of
\* the sources at hand): the record with the greatest key that has the
\* wanted (type, object id) and logical_addr <= iaddr ...
CatCandidates(f, iaddr) == {r \in catalog[f] : r.logical_addr <= iaddr}

CatGreatest(f, iaddr) ==
    CHOOSE r \in CatCandidates(f, iaddr) :
        \A s \in CatCandidates(f, iaddr) : s.logical_addr <= r.logical_addr

\* ... accepted when logical_addr <= iaddr < logical_addr + value.len, and
\* NotFound otherwise.
CatAccepts(r, iaddr) ==
    r.logical_addr <= iaddr /\ iaddr < r.logical_addr + ExtLen(r)

\* The record the lookup lands on, NoRec if there is none.
CatLanding(f, iaddr) ==
    IF CatCandidates(f, iaddr) = {} THEN NoRec ELSE CatGreatest(f, iaddr)

\* The outcomes of apfs_btree_query: an error from below, NotFound, or
\* the accepted record.
BtreeQuery(f, iaddr) ==
    {[ret |-> -EIO, rec |-> NoRec]}
    \cup
    (IF CatCandidates(f, iaddr) # {} /\ CatAccepts(CatGreatest(f, iaddr), iaddr)
     THEN {[ret |-> 0, rec |-> CatGreatest(f, iaddr)]}
     ELSE {[ret |-> -ENODATA, rec |-> NoRec]})

\* blk_off = iblock - (ext.logical_addr >> inode->i_blkbits);
BlkOff(iblock, ext) == U64(iblock + Word - Shr(ext.logical_addr, BlkBits))

\* map_len = ext.len - (blk_off << inode->i_blkbits);
MapLen(ext, blk_off) == U64(ext.len + Word - Shl(blk_off, BlkBits))

\* if (bh_result->b_size > map_len) bh_result->b_size = map_len;
ClipSize(b_size, map_len) == IF b_size > map_len THEN map_len ELSE b_size

\* if (ext.phys_block_num != 0) map_bh(bh_result, sb, bno)
IsMapped(ext) == ext.phys_block_num # 0

\* bno = ext.phys_block_num + blk_off;
Bno(ext, blk_off) == U64(ext.phys_block_num + blk_off)

\* The result of apfs_get_block once apfs_extent_read returned 0 with the
\* extent ext (extents.c:118-139): clip b_size and map the buffer.
Mapped(c, ext) ==
    LET blk_off == BlkOff(c.iblock, ext)
        map_len == MapLen(ext, blk_off)
    IN [c EXCEPT !.pc = "done", !.ret = 0, !.ext = ext,
                 !.b_size = ClipSize(c.b_size, map_len),
                 !.mapped = IsMapped(ext),
                 !.b_blocknr = IF IsMapped(ext) THEN Bno(ext, blk_off) ELSE 0]

\* A critical section that leaves without mutex_unlock.
StillLocked(t) == t

\* The lock after the critical section of extents.c:44-51: released on
\* the hit path (line 48) and on the miss path (line 51).
UnlockAfterCheck(t) == NoThread

\* The lock after the critical section of extents.c:95-97: released.
UnlockAfterInstall(t) == NoThread

\* A field-by-field copy that forgets phys_block_num.
CopyOutNoPhys(cache) == [cache EXCEPT !.phys_block_num = 0]

\* What *extent = *cache (extents.c:47) copies out.
CopyOut(cache) == cache

\* What *cache = *extent (extents.c:96) leaves in the cache.
InstallCache(cache, ext) == ext

\* kmalloc of the key (extents.c:53) and apfs_alloc_query (extents.c:60).
AllocKey(a) == [a EXCEPT !.key = @ + 1]

AllocQuery(a) == [a EXCEPT !.query = @ + 1]

\* The fail label (extents.c:101-102): kfree(key).
ExitFail(a) == [a EXCEPT !.key = @ - 1]

\* A done label that falls through to the return without kfree(key).
ExitDoneKeepsKey(a) == [a EXCEPT !.query = @ - 1]

\* The done label (extents.c:99-102): apfs_free_query, then kfree(key).
ExitDone(a) == ExitFail([a EXCEPT !.query = @ - 1])

\* A caller enters apfs_get_block(inode, iblock, bh_result, create) with
\* bh_result->b_size = size.  The create argument is never read: the
\* first statement is the call of apfs_extent_read (extents.c:114), which
\* takes the lock and tests the cache (extents.c:44-51).  On a hit the
\* cache is copied out, the lock dropped and the block mapped; on a miss
\* the lock is dropped and the thread goes on to the catalog.
GetBlock(t, i, b, size, create) ==
    /\ th[t].pc = "idle"
    /\ i_extent_id[i] # 0
    /\ i_extent_lock[i] = NoThread
    /\ i_extent_lock' = [i_extent_lock EXCEPT ![i] = UnlockAfterCheck(t)]
    /\ LET c == [Idle EXCEPT !.inode = i, !.iblock = b, !.create = create,
                             !.req_size = size, !.b_size = size]
       IN IF CacheCovers(i_cached_extent[i], Iaddr(b))
          THEN th' = [th EXCEPT ![t] =
                        Mapped([c EXCEPT !.hit = TRUE],
                               CopyOut(i_cached_extent[i]))]
          ELSE th' = [th EXCEPT ![t] = [c EXCEPT !.pc = "lookup53"]]
    /\ UNCHANGED <<catalog, i_extent_id, i_cached_extent, mountvars, statvars>>

\* extents.c:53-93 and 99-103  allocate the key and the query, search the
\* catalog, validate and decode the record; the lock is not held.  On any
\* failure the query and the key are freed and the error is returned.
ExtentReadLookup(t) ==
    /\ th[t].pc = "lookup53"
    /\ LET f == i_extent_id[th[t].inode]
           iaddr == Iaddr(th[t].iblock)
           both == AllocQuery(AllocKey(th[t].alloc))
       IN \/ \* kmalloc of the key fails (extents.c:53-55)
             th' = [th EXCEPT ![t].pc = "done", ![t].ret = -ENOMEM]
          \/ \* apfs_alloc_query fails (extents.c:60-64)
             th' = [th EXCEPT ![t].pc = "done", ![t].ret = -ENOMEM,
                              ![t].alloc = ExitFail(AllocKey(@))]
          \/ \E q \in BtreeQuery(f, iaddr) :
               LET looked == [th EXCEPT ![t].looked = TRUE,
                                        ![t].found = IF q.ret = -EIO THEN NoRec
                                                     ELSE CatLanding(f, iaddr)]
               IN IF q.ret # 0
                  THEN th' = [looked EXCEPT ![t].pc = "done", ![t].ret = q.ret,
                                            ![t].alloc = ExitDone(both)]
                  ELSE IF BadRecordSize(q.rec)
                  THEN th' = [looked EXCEPT ![t].pc = "done",
                                            ![t].ret = -EFSCORRUPTED,
                                            ![t].alloc = ExitDone(both)]
                  ELSE IF BadExtentLength(ExtLen(q.rec))
                  THEN th' = [looked EXCEPT ![t].pc = "done",
                                            ![t].ret = -EFSCORRUPTED,
                                            ![t].alloc = ExitDone(both)]
                  ELSE th' = [looked EXCEPT ![t].pc = "install95",
                                            ![t].ext = DecodeExtent(q.rec),
                                            ![t].alloc = both]
    /\ UNCHANGED <<catalog, i_extent_id, i_cached_extent, i_extent_lock, mountvars, statvars>>

\* extents.c:95-103 and 118-139  take the lock, *cache = *extent, drop
\* the lock, free the query and the key; apfs_get_block then maps the block.
ExtentReadInstall(t) ==
    /\ th[t].pc = "install95"
    /\ i_extent_lock[th[t].inode] = NoThread
    /\ i_cached_extent' =
         [i_cached_extent EXCEPT ![th[t].inode] =
             InstallCache(i_cached_extent[th[t].inode], th[t].ext)]
    /\ i_extent_lock' = [i_extent_lock EXCEPT ![th[t].inode] = UnlockAfterInstall(t)]
    /\ th' = [th EXCEPT ![t] =
                Mapped([th[t] EXCEPT !.alloc = ExitDone(@)], th[t].ext)]
    /\ UNCHANGED <<catalog, i_extent_id, mountvars, statvars>>

\* apfs_get_block returned; the caller goes on.
GetBlockReturn(t) ==
    /\ th[t].pc = "done"
    /\ th' = [th EXCEPT ![t] = Idle]
    /\ UNCHANGED <<catalog, i_extent_id, i_cached_extent, i_extent_lock, mountvars, statvars>>

\* ------------------------------------------------------------------------
\* fs/apfs/super.c: the inode slab
\* ------------------------------------------------------------------------

\* init_once: runs when the slab object is constructed.  Only len is set;
\* the other two fields of the cache keep what the memory held.
InitOnce(la, phys) == Extent(la, phys, 0)

\* apfs_alloc_inode hands out a slab object and leaves the object as the
\* slab holds it (the constructor does not run again); the object then
\* stands for file f.
AllocInodeCache(old) == old

AllocInode(i, f) ==
    /\ i_extent_id[i] = 0
    /\ \A j \in Inodes : i_extent_id[j] # f
    /\ i_extent_id' = [i_extent_id EXCEPT ![i] = f]
    /\ i_cached_extent' =
         [i_cached_extent EXCEPT ![i] = AllocInodeCache(i_cached_extent[i])]
    /\ UNCHANGED <<catalog, i_extent_lock, th, mountvars, statvars>>

\* apfs_destroy_inode, then apfs_i_callback after the grace period: the
\* object goes back to the slab.  The VFS destroys an inode nobody uses.
DestroyInode(i) ==
    /\ i_extent_id[i] # 0
    /\ \A t \in Threads : th[t].inode # i
    /\ i_extent_id' = [i_extent_id EXCEPT ![i] = 0]
    /\ UNCHANGED <<catalog, i_cached_extent, i_extent_lock, th, mountvars, statvars>>

\* What callers pass as bh_result->b_size and as create: reads of one and
\* of two blocks, and a write.
Requests ==
    {[size |-> BlockSize, create |-> FALSE],
     [size |-> 2 * BlockSize, create |-> FALSE],
     [size |-> BlockSize, create |-> TRUE]}

ExtInit ==
    /\ catalog \in Catalogs
    /\ i_extent_id = [i \in Inodes |-> 0]
    /\ \E g \in UninitValues :
         i_cached_extent = [i \in Inodes |-> InitOnce(g, g)]
    /\ i_extent_lock = [i \in Inodes |-> NoThread]
    /\ th = [t \in Threads |-> Idle]

ExtNext ==
    \/ \E t \in Threads, i \in Inodes, b \in 0 .. MaxIblock, r \in Requests :
            GetBlock(t, i, b, r.size, r.create)
    \/ \E t \in Threads : ExtentReadLookup(t)
    \/ \E t \in Threads : ExtentReadInstall(t)
    \/ \E t \in Threads : GetBlockReturn(t)
    \/ \E i \in Inodes, f \in Files : AllocInode(i, f)
    \/ \E i \in Inodes : DestroyInode(i)

\* ------------------------------------------------------------------------
\* fs/apfs/super.c: checksum
\* ------------------------------------------------------------------------

\* Width of the 32-bit words Fletcher-64 sums (32 in the code): the
\* modulus is 2^CksumBits - 1 for 0xFFFFFFFF.
CksumBits == 8

CksumMod == (2 ^ CksumBits) - 1

RECURSIVE FletcherSums(_, _, _, _)
\* The loop of apfs_fletcher64: sum1 += buff[i]; sum2 += sum1;
FletcherSums(words, i, sum1, sum2) ==
    IF i > Len(words)
    THEN <<sum1, sum2>>
    ELSE FletcherSums(words, i + 1, sum1 + words[i], sum2 + sum1 + words[i])

\* c1 = 0xFFFFFFFF - (sum1 + sum2) % 0xFFFFFFFF;
\* c2 = 0xFFFFFFFF - (sum1 + c1) % 0xFFFFFFFF;  return (c2 << 32) | c1;
Fletcher64(words) ==
    LET s == FletcherSums(words, 1, 0, 0)
        c1 == CksumMod - ((s[1] + s[2]) % CksumMod)
        c2 == CksumMod - ((s[1] + c1) % CksumMod)
    IN c2 * (2 ^ CksumBits) + c1

\* apfs_obj_verify_csum: the stored o_cksum against Fletcher-64 over the
\* block after its first 8 bytes.
ObjVerifyCsum(blk) == blk.o_cksum = Fletcher64(blk.payload)

\* ------------------------------------------------------------------------
\* The disk image
\* ------------------------------------------------------------------------

\* Magic numbers, as one word of the block.
APFS_NX_MAGIC == 78

APFS_MAGIC == 65

\* APFS_NX_DEFAULT_BLOCK_SIZE
DefaultBlockSize == 4096

\* Block sizes sb_set_blocksize accepts on the host.
HostBlockSizes == {4096, 8192}

\* The object id of the one volume of the container, and an id that is in
\* no object map.
VolOid == 2

StrayOid == 3

\* sizeof(struct apfs_nx_superblock), and the number of slots of its
\* nx_fs_oid[] array (APFS_NX_MAX_FILE_SYSTEMS).
NxSuperblockSize == 1384

NxMaxFileSystems == 100

\* The object blocks of the image, by what they hold.
RawBlocks == {"nxsb", "nx_omap", "apsb", "vol_omap"}

NodeBlocks == {"vtable", "omap_root", "cat_root"}

ObjBlocks == RawBlocks \cup NodeBlocks

\* The words of a block after the checksum; the fields the code reads
\* are among them.
Payload(name, magic, bsize) ==
    CASE name = "nxsb" -> <<1, magic, bsize % (2 ^ CksumBits),
                            (bsize \div 256) % (2 ^ CksumBits), VolOid, 0>>
      [] name = "apsb" -> <<VolOid, magic, 7>>
      [] name = "nx_omap" -> <<11, 12>>
      [] name = "vol_omap" -> <<21, 22>>
      [] name = "vtable" -> <<31, VolOid>>
      [] name = "omap_root" -> <<41, 42, 43>>
      [] OTHER -> <<51, 52>>

\* A stored checksum with its lowest bit flipped.
FlipBit(c) == IF c % 2 = 0 THEN c + 1 ELSE c - 1

\* A block with a good or a tampered stored checksum.
Block(name, magic, bsize, good) ==
    LET p == Payload(name, magic, bsize)
    IN [o_cksum |-> IF good THEN Fletcher64(p) ELSE FlipBit(Fletcher64(p)),
        payload |-> p]

\* The image with the given block size and magics whose blocks in bad
\* carry a tampered checksum.
Image(bsize, nxm, vm, bad) ==
    [nx_block_size |-> bsize, nx_magic |-> nxm, apfs_magic |-> vm,
     blocks |-> [n \in ObjBlocks |->
                   Block(n, IF n = "nxsb" THEN nxm ELSE vm, bsize,
                         n \notin bad)]]

Images ==
    {Image(bsize, nxm, vm, bad) :
        bsize \in {4096, 8192, 100},
        nxm \in {APFS_NX_MAGIC, 0},
        vm \in {APFS_MAGIC, 0},
        bad \in SUBSET ObjBlocks}

\* nx_fs_oid[slot]: slot 0 holds the volume, the other slots are empty.
NxFsOid(slot) == IF slot = 0 THEN VolOid ELSE 0

\* ------------------------------------------------------------------------
\* Mount options
\* ------------------------------------------------------------------------

ERANGE == 34

\* One comma-separated segment: its key, whether digits follow the "=",
\* their value, and whether the value exceeds INT_MAX.
Seg(key, digits, val, big) ==
    [key |-> key, digits |-> digits, val |-> val, big |-> big]

EmptySeg == Seg("", FALSE, 0, FALSE)

\* The option strings tried; << >> is no option string at all (NULL) and
\* <<EmptySeg>> is the empty string, which strsep splits into one empty
\* segment.
OptionStrings ==
    {<< >>,
     <<EmptySeg>>,
     <<Seg("vol", TRUE, 0, FALSE)>>,
     <<Seg("vol", TRUE, 1, FALSE)>>,
     <<Seg("vol", TRUE, 100, FALSE)>>,
     <<Seg("vol", TRUE, 338, FALSE)>>,
     <<Seg("uid", TRUE, 5, FALSE), EmptySeg, Seg("gid", TRUE, 7, FALSE)>>,
     <<Seg("uid", TRUE, 0, TRUE)>>,
     <<Seg("vol", FALSE, 0, FALSE)>>,
     <<Seg("quiet", FALSE, 0, FALSE)>>}

APFS_UID_OVERRIDE == 1

APFS_GID_OVERRIDE == 2

\* match_token against "uid=%u", "gid=%u", "vol=%u": the key must be one
\* of the three and digits must follow.
MatchToken(seg) ==
    IF seg.key \in {"uid", "gid", "vol"} /\ seg.digits THEN seg.key ELSE "err"

\* match_int: the digits as an int; -ERANGE beyond INT_MAX.
MatchInt(seg) == IF seg.big THEN -ERANGE ELSE 0

RECURSIVE ParseFrom(_, _, _, _)
\* The while loop of parse_options from segment i on; o is
\* [err, s_vol_nr, s_flags, s_uid, s_gid] so far, idok says whether
\* make_kuid/make_kgid map the ids in the caller's user namespace.
ParseFrom(segs, i, o, idok) ==
    IF i > Len(segs) THEN o
    ELSE LET seg == segs[i]
             tok == MatchToken(seg)
         IN IF seg.key = "" THEN ParseFrom(segs, i + 1, o, idok)
            ELSE IF tok = "err" THEN [o EXCEPT !.err = -EINVAL]
            ELSE IF MatchInt(seg) # 0 THEN [o EXCEPT !.err = MatchInt(seg)]
            ELSE IF tok = "vol"
                 THEN ParseFrom(segs, i + 1, [o EXCEPT !.s_vol_nr = seg.val], idok)
            ELSE IF ~idok
                 THEN IF tok = "uid"
                      THEN [o EXCEPT !.err = -EINVAL, !.s_uid = -1]
                      ELSE [o EXCEPT !.err = -EINVAL, !.s_gid = -1]
            ELSE IF tok = "uid"
                 THEN ParseFrom(segs, i + 1,
                        [o EXCEPT !.s_uid = seg.val,
                                  !.s_flags = IF (o.s_flags \div APFS_UID_OVERRIDE) % 2 = 1
                                              THEN o.s_flags
                                              ELSE o.s_flags + APFS_UID_OVERRIDE],
                        idok)
                 ELSE ParseFrom(segs, i + 1,
                        [o EXCEPT !.s_gid = seg.val,
                                  !.s_flags = IF (o.s_flags \div APFS_GID_OVERRIDE) % 2 = 1
                                              THEN o.s_flags
                                              ELSE o.s_flags + APFS_GID_OVERRIDE],
                        idok)

\* parse_options(sb, options): the defaults, then the loop.
ParseOptionsResult(options, old, idok) ==
    LET start == [err |-> 0, s_vol_nr |-> 0, s_flags |-> 0,
                  s_uid |-> old.s_uid, s_gid |-> old.s_gid]
    IN IF options = << >> THEN start ELSE ParseFrom(options, 1, start, idok)

\* ------------------------------------------------------------------------
\* fs/apfs/super.c: mount and unmount
\* ------------------------------------------------------------------------

\* Buffers, node handles and allocations a mount takes.
Resources ==
    {"sbi", "bh_nxsb", "bh_nx_omap", "vtable", "bh_apsb", "bh_vol_omap",
     "omap_root", "cat_root", "root_inode"}

NoRes == [r \in Resources |-> [acq |-> 0, rel |-> 0]]

\* n acquisitions of resource r.
Acquire(rs, r, n) == [rs EXCEPT ![r].acq = @ + n]

\* brelse / apfs_table_put / kfree / iput of a pointer: nothing for NULL.
Release(rs, ptr) == IF ptr = "NULL" THEN rs ELSE [rs EXCEPT ![ptr].rel = @ + 1]

\* The log of released mount handles after the release of a pointer.
Logged(log, ptr) == IF ptr = "NULL" THEN log ELSE Append(log, ptr)

RECURSIVE ReleaseAll(_, _)
\* The releases of a sequence of pointers, first to last.
ReleaseAll(rs, ptrs) ==
    IF ptrs = << >> THEN rs
    ELSE ReleaseAll(Release(rs, Head(ptrs)), Tail(ptrs))

RECURSIVE LoggedAll(_, _)
LoggedAll(log, ptrs) ==
    IF ptrs = << >> THEN log
    ELSE LoggedAll(Logged(log, Head(ptrs)), Tail(ptrs))

\* kzalloc: every field zero.
ZeroSbi ==
    [alive |-> FALSE, s_mnode_bh |-> "NULL", s_vnode_bh |-> "NULL",
     s_omap_root |-> "NULL", s_cat_root |-> "NULL",
     s_vol_nr |-> 0, s_flags |-> 0, s_uid |-> 0, s_gid |-> 0]

FreshSb ==
    [s_blocksize |-> 0, s_magic |-> 0, s_fs_info |-> "NULL",
     s_root |-> "NULL", s_rdonly |-> FALSE]

\* log: the mount handles released so far, in the order of their release.
Unmounted ==
    [pc |-> "unmounted", err |-> 0, why |-> "", data |-> << >>, log |-> << >>]

\* apfs_fill_super leaves through a label or returns.
Fail(label, e, why) == [m EXCEPT !.pc = label, !.err = e, !.why = why]

\* The error apfs_map_main_super returns for a wrong magic or checksum:
\* err is set once, at its declaration (super.c:74).
MainSuperErr == -EINVAL

\* The labels apfs_fill_super jumps to when a step fails.
MainSuperFailLabel == "failed_main_super"

\* A failure of parse_options jumping past apfs_unmap_main_super.
OptionsFailLabelSkips == "failed_main_super"

OptionsFailLabel == "failed_volume_super"

VolumeSuperFailLabel == "failed_volume_super"

OmapFailLabel == "failed_omap"

\* A failure of apfs_read_catalog that does not leave apfs_fill_super.
CatalogFailLabelGoesOn == "get_root"

CatalogFailLabel == "failed_cat"

RootFailLabel == "failed_mount"

\* apfs_fill_super up to the first step (super.c:580-586): force the mount
\* read-only and allocate the mount state.  The host calls it for a mount
\* with the option string data.
FillSuperBegin(data, alloc_ok) ==
    /\ m.pc \in {"unmounted", "failed", "released"}
    /\ m_reads' = {}
    /\ sbi' = IF alloc_ok THEN [ZeroSbi EXCEPT !.alive = TRUE] ELSE ZeroSbi
    /\ res' = IF alloc_ok THEN Acquire(NoRes, "sbi", 1) ELSE NoRes
    /\ sb' = [FreshSb EXCEPT !.s_rdonly = TRUE,
                             !.s_fs_info = IF alloc_ok THEN "sbi" ELSE "NULL"]
    /\ m' = IF alloc_ok
            THEN [pc |-> "map_main_super", err |-> 0, why |-> "", data |-> data,
                  log |-> << >>]
            ELSE [pc |-> "failed", err |-> -ENOMEM, why |-> "kzalloc",
                  data |-> data, log |-> << >>]
    /\ UNCHANGED <<img, extvars, statvars>>

\* apfs_map_main_super (super.c:68-127).  setbs_ok: the host accepts the
\* default block size; read1_ok, read2_ok: sb_bread gives a buffer.
MapMainSuper(setbs_ok, read1_ok, read2_ok) ==
    /\ m.pc = "map_main_super"
    /\ LET blocksize == img.nx_block_size
           reread == blocksize # DefaultBlockSize
           nxsb == img.blocks["nxsb"]
           fail(e, why, acq, bs) ==
               /\ m' = Fail(MainSuperFailLabel, e, why)
               /\ res' = Release(Release(Acquire(res, "bh_nxsb", acq),
                                         IF acq >= 1 THEN "bh_nxsb" ELSE "NULL"),
                                 IF acq >= 2 THEN "bh_nxsb" ELSE "NULL")
               /\ sb' = [sb EXCEPT !.s_blocksize = bs]
               /\ UNCHANGED sbi
       IN IF ~setbs_ok
          THEN fail(-EINVAL, "set_blocksize", 0, 0) /\ UNCHANGED m_reads
          ELSE IF ~read1_ok
          THEN fail(-EINVAL, "read_nxsb", 0, DefaultBlockSize) /\ UNCHANGED m_reads
          ELSE IF reread /\ blocksize \notin HostBlockSizes
          THEN fail(-EINVAL, "bad_blocksize", 1, DefaultBlockSize)
               /\ m_reads' = m_reads \cup {"nxsb"}
          ELSE IF reread /\ ~read2_ok
          THEN fail(-EINVAL, "read_nxsb_2", 1, blocksize)
               /\ m_reads' = m_reads \cup {"nxsb"}
          ELSE
            /\ m_reads' = m_reads \cup {"nxsb"}
            /\ IF nxsb.payload[2] # APFS_NX_MAGIC
               THEN /\ fail(MainSuperErr, "nx_magic", IF reread THEN 2 ELSE 1,
                            blocksize)
               ELSE IF ~ObjVerifyCsum(nxsb)
               THEN /\ fail(MainSuperErr, "nx_csum", IF reread THEN 2 ELSE 1,
                            blocksize)
               ELSE /\ m' = [m EXCEPT !.pc = "parse_options"]
                    /\ res' = IF reread
                              THEN Release(Acquire(res, "bh_nxsb", 2), "bh_nxsb")
                              ELSE Acquire(res, "bh_nxsb", 1)
                    /\ sb' = [sb EXCEPT !.s_blocksize = blocksize,
                                        !.s_magic = nxsb.payload[2]]
                    /\ sbi' = [sbi EXCEPT !.s_mnode_bh = "bh_nxsb"]
    /\ UNCHANGED <<img, extvars, statvars>>

\* parse_options (super.c:518-572) as called at super.c:596.  idok: the
\* caller's user namespace maps the ids given.
ParseOptions(idok) ==
    /\ m.pc = "parse_options"
    /\ LET o == ParseOptionsResult(m.data, sbi, idok)
       IN /\ sbi' = [sbi EXCEPT !.s_vol_nr = o.s_vol_nr, !.s_flags = o.s_flags,
                                !.s_uid = o.s_uid, !.s_gid = o.s_gid]
          /\ m' = IF o.err # 0
                  THEN Fail(OptionsFailLabel, o.err, "options")
                  ELSE [m EXCEPT !.pc = "map_volume_super"]
    /\ UNCHANGED <<img, sb, res, m_reads, extvars, statvars>>

\* apfs_read_table and apfs_omap_read_table: read the node's block, verify
\* its checksum, allocate the handle.  Gives the error, 0 for a handle.
ReadTableErr(blk, fault) ==
    IF fault = "io" THEN -EIO
    ELSE IF ~ObjVerifyCsum(img.blocks[blk]) THEN -EFSCORRUPTED
    ELSE IF fault = "nomem" THEN -ENOMEM
    ELSE 0

\* Whether the loader got the node's block from the block reader.
TableWasRead(fault) == fault # "io"

\* apfs_omap_lookup_block on the container's table: the block of the
\* object with this id, or not found.
OmapLookupErr(oid) == IF oid = VolOid THEN 0 ELSE -ENODATA

\* The faults of the host while apfs_map_volume_super runs.
VolumeFaults == {"none", "read_nx_omap", "io", "nomem", "read_vsb"}

\* What an nx_fs_oid[] index beyond the array may find in the block.
BeyondArray == {0, VolOid, StrayOid}

\* apfs_map_volume_super (super.c:147-217).
MapVolumeSuper(fault, beyond) ==
    /\ m.pc = "map_volume_super"
    /\ LET vol_id == IF sbi.s_vol_nr < NxMaxFileSystems
                     THEN NxFsOid(sbi.s_vol_nr) ELSE beyond
           fail(e, why, rs, reads) ==
               /\ m' = Fail(VolumeSuperFailLabel, e, why)
               /\ res' = rs
               /\ m_reads' = m_reads \cup reads
               /\ UNCHANGED sbi
           omap_bh == Release(Acquire(res, "bh_nx_omap", 1), "bh_nx_omap")
           vtable_err == ReadTableErr("vtable", fault)
           vtable_rd == IF TableWasRead(fault) THEN {"vtable"} ELSE {}
           vtable == Release(Acquire(omap_bh, "vtable", 1), "vtable")
       IN IF NxSuperblockSize + 8 * (sbi.s_vol_nr + 1) >= sb.s_blocksize
          THEN fail(-EINVAL, "vol_range", res, {})
          ELSE IF vol_id = 0
          THEN fail(-EINVAL, "no_volume", res, {})
          ELSE IF fault = "read_nx_omap"
          THEN fail(-EINVAL, "read_nx_omap", res, {})
          ELSE IF vtable_err # 0
          THEN fail(vtable_err, "vtable", omap_bh, {"nx_omap"} \cup vtable_rd)
          ELSE IF OmapLookupErr(vol_id) # 0
          THEN fail(OmapLookupErr(vol_id), "lookup", vtable,
                    {"nx_omap", "vtable"})
          ELSE IF fault = "read_vsb"
          THEN fail(-EINVAL, "read_vsb", vtable, {"nx_omap", "vtable"})
          ELSE IF img.blocks["apsb"].payload[2] # APFS_MAGIC
          THEN fail(-EINVAL, "ap_magic",
                    Release(Acquire(vtable, "bh_apsb", 1), "bh_apsb"),
                    {"nx_omap", "vtable", "apsb"})
          ELSE /\ m' = [m EXCEPT !.pc = "read_omap"]
               /\ res' = Acquire(vtable, "bh_apsb", 1)
               /\ m_reads' = m_reads \cup {"nx_omap", "vtable", "apsb"}
               /\ sbi' = [sbi EXCEPT !.s_vnode_bh = "bh_apsb"]
    /\ UNCHANGED <<img, sb, extvars, statvars>>

\* The faults of the host while apfs_read_omap runs.
OmapFaults == {"none", "read_vol_omap", "io", "nomem"}

\* apfs_read_omap (super.c:237-266).
ReadOmap(fault) ==
    /\ m.pc = "read_omap"
    /\ LET omap_bh == Release(Acquire(res, "bh_vol_omap", 1), "bh_vol_omap")
           root_err == ReadTableErr("omap_root", fault)
           root_rd == IF TableWasRead(fault) THEN {"omap_root"} ELSE {}
       IN IF fault = "read_vol_omap"
          THEN /\ m' = Fail(OmapFailLabel, -EINVAL, "read_vol_omap")
               /\ UNCHANGED <<res, m_reads, sbi>>
          ELSE IF root_err # 0
          THEN /\ m' = Fail(OmapFailLabel, root_err, "omap_root")
               /\ res' = omap_bh
               /\ m_reads' = m_reads \cup {"vol_omap"} \cup root_rd
               /\ UNCHANGED sbi
          ELSE /\ m' = [m EXCEPT !.pc = "read_catalog"]
               /\ res' = Acquire(omap_bh, "omap_root", 1)
               /\ m_reads' = m_reads \cup {"vol_omap", "omap_root"}
               /\ sbi' = [sbi EXCEPT !.s_omap_root = "omap_root"]
    /\ UNCHANGED <<img, sb, extvars, statvars>>

\* The faults of the host while apfs_read_catalog runs.
CatalogFaults == {"none", "io", "nomem"}

\* apfs_read_catalog (super.c:275-290).
ReadCatalog(fault) ==
    /\ m.pc = "read_catalog"
    /\ LET root_err == ReadTableErr("cat_root", fault)
       IN IF root_err # 0
          THEN /\ m' = Fail(CatalogFailLabel, root_err, "cat_root")
               /\ m_reads' = IF TableWasRead(fault)
                             THEN m_reads \cup {"cat_root"} ELSE m_reads
               /\ UNCHANGED <<res, sbi>>
          ELSE /\ m' = [m EXCEPT !.pc = "get_root"]
               /\ res' = Acquire(res, "cat_root", 1)
               /\ m_reads' = m_reads \cup {"cat_root"}
               /\ sbi' = [sbi EXCEPT !.s_cat_root = "cat_root"]
    /\ UNCHANGED <<img, sb, extvars, statvars>>

\* The faults of the host while the root directory is set up.
RootFaults == {"none", "iget", "d_make_root"}

\* apfs_fill_super from apfs_iget to its return 0 (super.c:618-630).
\* d_make_root drops the inode itself when it fails.
GetRoot(fault) ==
    /\ m.pc = "get_root"
    /\ IF fault = "iget"
       THEN /\ m' = Fail(RootFailLabel, -EIO, "iget")
            /\ UNCHANGED <<res, sb>>
       ELSE IF fault = "d_make_root"
       THEN /\ m' = Fail(RootFailLabel, -ENOMEM, "d_make_root")
            /\ res' = Release(Acquire(res, "root_inode", 1), "root_inode")
            /\ UNCHANGED sb
       ELSE /\ m' = [m EXCEPT !.pc = "ready"]
            /\ res' = Acquire(res, "root_inode", 1)
            /\ sb' = [sb EXCEPT !.s_root = "root_inode"]
    /\ UNCHANGED <<img, sbi, m_reads, extvars, statvars>>

\* failed_mount: apfs_table_put(sbi->s_cat_root) (super.c:632-633).
FailedMount ==
    /\ m.pc = "failed_mount"
    /\ res' = Release(res, sbi.s_cat_root)
    /\ m' = [m EXCEPT !.pc = "failed_cat", !.log = Logged(@, sbi.s_cat_root)]
    /\ UNCHANGED <<img, sb, sbi, m_reads, extvars, statvars>>

\* failed_cat: apfs_table_put(sbi->s_omap_root) (super.c:634-635).
FailedCat ==
    /\ m.pc = "failed_cat"
    /\ res' = Release(res, sbi.s_omap_root)
    /\ m' = [m EXCEPT !.pc = "failed_omap", !.log = Logged(@, sbi.s_omap_root)]
    /\ UNCHANGED <<img, sb, sbi, m_reads, extvars, statvars>>

\* failed_omap: apfs_unmap_volume_super (super.c:636-637, 223-228).
FailedOmap ==
    /\ m.pc = "failed_omap"
    /\ res' = Release(res, sbi.s_vnode_bh)
    /\ m' = [m EXCEPT !.pc = "failed_volume_super", !.log = Logged(@, sbi.s_vnode_bh)]
    /\ UNCHANGED <<img, sb, sbi, m_reads, extvars, statvars>>

\* failed_volume_super: apfs_unmap_main_super (super.c:638-639, 133-138).
FailedVolumeSuper ==
    /\ m.pc = "failed_volume_super"
    /\ res' = Release(res, sbi.s_mnode_bh)
    /\ m' = [m EXCEPT !.pc = "failed_main_super", !.log = Logged(@, sbi.s_mnode_bh)]
    /\ UNCHANGED <<img, sb, sbi, m_reads, extvars, statvars>>

\* failed_main_super: detach and free the mount state, return err
\* (super.c:640-643).
FailedMainSuper ==
    /\ m.pc = "failed_main_super"
    /\ sb' = [sb EXCEPT !.s_fs_info = "NULL"]
    /\ sbi' = [sbi EXCEPT !.alive = FALSE]
    /\ res' = Release(res, "sbi")
    /\ m' = [m EXCEPT !.pc = "failed"]
    /\ UNCHANGED <<img, m_reads, extvars, statvars>>

\* kill_block_super (super.c:656) on a mounted volume: the host drops the
\* root dentry and then calls put_super.
KillSuper ==
    /\ m.pc = "ready"
    /\ res' = Release(res, sb.s_root)
    /\ sb' = [sb EXCEPT !.s_root = "NULL"]
    /\ m' = [m EXCEPT !.pc = "put_super"]
    /\ UNCHANGED <<img, sbi, m_reads, extvars, statvars>>

\* The handles apfs_put_super releases, in the order of its calls:
\* apfs_table_put(s_cat_root), apfs_table_put(s_omap_root),
\* apfs_unmap_main_super, apfs_unmap_volume_super (super.c:296-300).
PutSuperOrder ==
    <<sbi.s_cat_root, sbi.s_omap_root, sbi.s_mnode_bh, sbi.s_vnode_bh>>

\* apfs_put_super (super.c:292-304).
PutSuper ==
    /\ m.pc = "put_super"
    /\ res' = Release(ReleaseAll(res, PutSuperOrder), "sbi")
    /\ sb' = [sb EXCEPT !.s_fs_info = "NULL"]
    /\ sbi' = [sbi EXCEPT !.alive = FALSE]
    /\ m' = [m EXCEPT !.pc = "released", !.log = LoggedAll(@, PutSuperOrder)]
    /\ UNCHANGED <<img, m_reads, extvars, statvars>>

\* ------------------------------------------------------------------------
\* fs/apfs/super.c: used-block count and statfs
\* ------------------------------------------------------------------------

\* The size of a value of the container object map: flags, size, block.
OmapValSize == 16

\* One entry of the container object map's root node: its key (oid, xid),
\* the length apfs_table_locate_data gives for its value, and the block
\* the value names.
OmapEntry(oid, xid, len, block) ==
    [oid |-> oid, xid |-> xid, len |-> len, block |-> block]

\* The entries a container may hold, in key order: volume 1 at two
\* transactions, volume 2 at one transaction and once more with a
\* truncated value, volume 3.
VolumeEntries ==
    <<OmapEntry(1, 1, OmapValSize, 1), OmapEntry(1, 2, OmapValSize, 3),
      OmapEntry(2, 1, OmapValSize, 2), OmapEntry(2, 2, 8, 4),
      OmapEntry(3, 1, OmapValSize, 5)>>

\* apfs_fs_alloc_count of the volume superblock in a block.
FsAllocCount(block) ==
    CASE block = 1 -> 10
      [] block = 2 -> 25
      [] block = 3 -> 12
      [] block = 4 -> 7
      [] OTHER -> Word - 56

\* nx_block_count of the containers tried.
BlockCounts == {100, 30}

Containers ==
    {[nx_block_count |-> n,
      entries |-> SelectSeq(VolumeEntries, LAMBDA e : e \in keep)] :
        n \in BlockCounts,
        keep \in SUBSET {VolumeEntries[k] : k \in DOMAIN VolumeEntries}}

\* The buffers and the node handle apfs_count_used_blocks takes.
StatResources == {"bh_nx_omap", "vtable", "bh_vsb"}

\* A kstatfs field the operation has not written.
Unset == -1

NoBuf ==
    [f_bsize |-> Unset, f_blocks |-> Unset, f_bfree |-> Unset,
     f_bavail |-> Unset]

StatIdlePc ==
    [pc |-> "idle", i |-> 0, count |-> 0, err |-> 0, why |-> "",
     buf |-> NoBuf,
     held |-> [r \in StatResources |-> [acq |-> 0, rel |-> 0]]]

\* The statfs state while no statfs runs.
StatIdle ==
    /\ cont = [nx_block_count |-> 100,
               entries |-> SelectSeq(VolumeEntries,
                                     LAMBDA e : e.oid = 1 /\ e.xid = 1)]
    /\ st = StatIdlePc

\* One acquisition, and one release, of a statfs resource.
StatAcquire(h, r) == [h EXCEPT ![r].acq = @ + 1]

StatRelease(h, r) == [h EXCEPT ![r].rel = @ + 1]

\* The faults of the host while apfs_count_used_blocks gets the node.
CountFaults == {"none", "read_nx_omap", "io", "nomem"}

\* apfs_statfs (super.c:436-450) and apfs_count_used_blocks up to its
\* loop (super.c:370-403).  The host calls it on a mounted volume with a
\* fresh buffer.
StatfsBegin(fault) ==
    /\ st.pc \in {"idle", "done"}
    /\ LET buf == [NoBuf EXCEPT !.f_bsize = sb.s_blocksize,
                                !.f_blocks = cont.nx_block_count]
           omap_bh == StatRelease(StatAcquire(StatIdlePc.held, "bh_nx_omap"),
                                  "bh_nx_omap")
           fresh == [StatIdlePc EXCEPT !.buf = buf]
       IN IF fault = "read_nx_omap"
          THEN st' = [fresh EXCEPT !.pc = "done", !.err = -EIO,
                                   !.why = "read_nx_omap"]
          ELSE IF ReadTableErr("vtable", fault) # 0
          THEN st' = [fresh EXCEPT !.pc = "done", !.held = omap_bh,
                                   !.err = ReadTableErr("vtable", fault),
                                   !.why = "vtable"]
          ELSE st' = [fresh EXCEPT !.pc = "loop",
                                   !.held = StatAcquire(omap_bh, "vtable")]
    /\ UNCHANGED <<cont, mountvars, extvars>>

\* What the loop adds to *count for one volume superblock.
AddCount(count, block) == U64(count + FsAllocCount(block))

\* A failure in the loop returning at once, past the cleanup label.
CountFailPcReturns == "done"

\* How the loop leaves after a failure: through the cleanup label.
CountFailPc == "cleanup"

\* One iteration of the loop of apfs_count_used_blocks (super.c:404-429),
\* or its end.
CountLoop(read_ok) ==
    /\ st.pc = "loop"
    /\ IF st.i >= Len(cont.entries)
       THEN st' = [st EXCEPT !.pc = "cleanup"]
       ELSE LET e == cont.entries[st.i + 1]
            IN IF e.len # OmapValSize
               THEN st' = [st EXCEPT !.pc = CountFailPc, !.err = -EIO,
                                     !.why = "bad_index"]
               ELSE IF ~read_ok
               THEN st' = [st EXCEPT !.pc = CountFailPc, !.err = -EIO,
                                     !.why = "read_vsb"]
               ELSE st' = [st EXCEPT
                             !.count = AddCount(st.count, e.block),
                             !.held = StatRelease(StatAcquire(@, "bh_vsb"),
                                                  "bh_vsb"),
                             !.i = @ + 1]
    /\ UNCHANGED <<cont, mountvars, extvars>>

\* f_bfree as apfs_statfs computes it: an unsigned 64-bit subtraction.
FreeBlocks(blocks, used) == U64(blocks - used + Word)

\* The cleanup label of apfs_count_used_blocks and the rest of
\* apfs_statfs (super.c:431-433, 451-476).
StatfsReturn ==
    /\ st.pc = "cleanup"
    /\ LET held == StatRelease(st.held, "vtable")
       IN IF st.err # 0
          THEN st' = [st EXCEPT !.pc = "done", !.held = held]
          ELSE st' = [st EXCEPT
                        !.pc = "done", !.held = held,
                        !.buf.f_bfree = FreeBlocks(st.buf.f_blocks, st.count),
                        !.buf.f_bavail = FreeBlocks(st.buf.f_blocks, st.count)]
    /\ UNCHANGED <<cont, mountvars, extvars>>

StatInit ==
    /\ cont \in Containers
    /\ st = StatIdlePc

StatNext ==
    \/ \E fault \in CountFaults : StatfsBegin(fault)
    \/ \E read_ok \in BOOLEAN : CountLoop(read_ok)
    \/ StatfsReturn

\* The image a mounted volume of the extent resolver lives on.
CleanImage == Image(DefaultBlockSize, APFS_NX_MAGIC, APFS_MAGIC, {})

\* The mount state while the extent resolver runs.
MountIdle ==
    /\ img = CleanImage
    /\ m = Unmounted
    /\ sb = FreshSb
    /\ sbi = ZeroSbi
    /\ res = NoRes
    /\ m_reads = {}

\* The extent resolver's state while a mount runs: no inode is live yet.
ExtIdle ==
    /\ catalog = CatalogClean
    /\ i_extent_id = [i \in Inodes |-> 0]
    /\ i_cached_extent = [i \in Inodes |-> InitOnce(0, 0)]
    /\ i_extent_lock = [i \in Inodes |-> NoThread]
    /\ th = [t \in Threads |-> Idle]

\* The mount state after apfs_fill_super returned 0 for the clean image
\* without options.
MountReady ==
    /\ img = CleanImage
    /\ m = [pc |-> "ready", err |-> 0, why |-> "", data |-> << >>,
            log |-> << >>]
    /\ sb = [s_blocksize |-> DefaultBlockSize, s_magic |-> APFS_NX_MAGIC,
             s_fs_info |-> "sbi", s_root |-> "root_inode", s_rdonly |-> TRUE]
    /\ sbi = [alive |-> TRUE, s_mnode_bh |-> "bh_nxsb",
              s_vnode_bh |-> "bh_apsb", s_omap_root |-> "omap_root",
              s_cat_root |-> "cat_root", s_vol_nr |-> 0, s_flags |-> 0,
              s_uid |-> 0, s_gid |-> 0]
    /\ res = [r \in Resources |->
                [acq |-> 1,
                 rel |-> IF r \in {"bh_nx_omap", "vtable", "bh_vol_omap"}
                         THEN 1 ELSE 0]]
    /\ m_reads = ObjBlocks

MountInit ==
    /\ img \in Images
    /\ m = Unmounted
    /\ sb = FreshSb
    /\ sbi = ZeroSbi
    /\ res = NoRes
    /\ m_reads = {}
    /\ ExtIdle
    /\ StatIdle

MountNext ==
    \/ \E data \in OptionStrings, alloc_ok \in BOOLEAN :
            FillSuperBegin(data, alloc_ok)
    \/ \E setbs_ok, read1_ok, read2_ok \in BOOLEAN :
            MapMainSuper(setbs_ok, read1_ok, read2_ok)
    \/ \E idok \in BOOLEAN : ParseOptions(idok)
    \/ \E fault \in VolumeFaults, beyond \in BeyondArray :
            MapVolumeSuper(fault, beyond)
    \/ \E fault \in OmapFaults : ReadOmap(fault)
    \/ \E fault \in CatalogFaults : ReadCatalog(fault)
    \/ \E fault \in RootFaults : GetRoot(fault)
    \/ FailedMount
    \/ FailedCat
    \/ FailedOmap
    \/ FailedVolumeSuper
    \/ FailedMainSuper
    \/ KillSuper
    \/ PutSuper

\* ------------------------------------------------------------------------
\* Specifications
\* ------------------------------------------------------------------------

vars == <<extvars, mountvars, statvars>>

Init == ExtInit /\ MountIdle /\ StatIdle

Next == ExtNext

\* The extent resolver on a mounted volume.
Spec == Init /\ [][Next]_vars

\* Mounting and unmounting a volume.
SpecMount == MountInit /\ [][MountNext]_vars

\* statfs is called on a mounted volume, no resolver call under way.
StatfsInit == StatInit /\ MountReady /\ ExtIdle

\* statfs on a mounted volume.
SpecStatfs == StatfsInit /\ [][StatNext]_vars

\* ------------------------------------------------------------------------
\* Properties of the extent resolver and of block mapping
\* ------------------------------------------------------------------------

\* apfs_extent_read returned 0 to thread t (and apfs_get_block went on).
Resolved(t) == th[t].pc = "done" /\ th[t].ret = 0

\* The extent e covers byte address a, in unbounded arithmetic.
Covers(e, a) == e.logical_addr <= a /\ a < e.logical_addr + e.len

\* C1  Cache coverage (P3): whenever apfs_extent_read returns 0 with
\* extent E, by a cache hit or by a catalog lookup,
\* E.logical_addr <= iblock * block_size < E.logical_addr + E.len.
C1_CacheCoverage ==
    \A t \in Threads :
        Resolved(t) => Covers(th[t].ext, th[t].iblock * BlockSize)

\* C1 witness: one thread was served by a cache hit and another by a
\* catalog lookup, and both got an extent.
C1_Witness ==
    \E t, u \in Threads :
        /\ Resolved(t) /\ th[t].hit
        /\ Resolved(u) /\ th[u].looked /\ ~th[u].hit

\* C2 as claimed: every extent returned or cached has len > 0 and
\* len mod block_size = 0, and a lookup that ends on a record whose length
\* is zero, or which covers the block and whose length is not a multiple
\* of the block size, fails with -EFSCORRUPTED.
C2_ExtentAlignment ==
    /\ \A t \in Threads :
          Resolved(t) => th[t].ext.len > 0 /\ th[t].ext.len % BlockSize = 0
    /\ \A i \in Inodes :
          i_cached_extent[i].len % BlockSize = 0
    /\ \A t \in Threads :
          (/\ th[t].pc = "done"
           /\ th[t].found # NoRec
           /\ ~BadRecordSize(th[t].found)
           /\ \/ ExtLen(th[t].found) = 0
              \/ /\ ExtLen(th[t].found) % BlockSize # 0
                 /\ CatAccepts(th[t].found, th[t].iblock * BlockSize))
          => th[t].ret = -EFSCORRUPTED

\* The block offset and the bytes left in the extent from iblock on, in
\* unbounded arithmetic.
BlkOffExact(t) == th[t].iblock - (th[t].ext.logical_addr \div BlockSize)

BytesLeftExact(t) == th[t].ext.len - BlkOffExact(t) * BlockSize

\* C3 as claimed (P7): a successful apfs_get_block with max_size > 0
\* returns 0 < mapped_bytes <= max_size and
\* mapped_bytes <= extent.len - blk_off * block_size, with no wrap-around
\* in blk_off or in the subtraction.
C3_MonotoneClipping ==
    \A t \in Threads :
        (Resolved(t) /\ th[t].req_size > 0) =>
            /\ BlkOffExact(t) >= 0
            /\ BytesLeftExact(t) >= 0
            /\ 0 < th[t].b_size
            /\ th[t].b_size <= th[t].req_size
            /\ th[t].b_size <= BytesLeftExact(t)

\* C4 as claimed: a call with create set ends with -EROFS, having made no
\* catalog lookup and returned no mapping.
C4_WriteRejected ==
    \A t \in Threads :
        th[t].create =>
            /\ th[t].pc = "done"
            /\ th[t].ret = -EROFS
            /\ ~th[t].looked
            /\ ~th[t].mapped

\* C5 as claimed (P5): over a hole (phys_block_num = 0) apfs_get_block
\* succeeds, maps nothing and returns a positive mapped_bytes; otherwise it
\* maps physical block phys_block_num + blk_off.
C5_HoleMapping ==
    \A t \in Threads :
        Resolved(t) =>
            IF th[t].ext.phys_block_num = 0
            THEN ~th[t].mapped /\ th[t].b_size > 0
            ELSE th[t].mapped
                 /\ th[t].b_blocknr = U64(th[t].ext.phys_block_num + BlkOffExact(t))

\* Thread t enters apfs_get_block in this step.
Enters(t) == th[t].pc = "idle" /\ th'[t].pc # "idle"

\* C6  Cache hit: when a thread takes the lock and the cached extent of
\* the inode covers iblock * block_size, the call returns exactly the
\* cached extent, makes no catalog lookup and leaves the cache unchanged.
C6_CacheHit ==
    [][\A t \in Threads :
          (Enters(t) /\ Covers(i_cached_extent[th'[t].inode],
                               th'[t].iblock * BlockSize))
          => /\ th'[t].pc = "done" /\ th'[t].ret = 0
             /\ th'[t].ext = i_cached_extent[th'[t].inode]
             /\ th'[t].hit /\ ~th'[t].looked
             /\ i_cached_extent' = i_cached_extent]_vars

\* C6 witness: with the three-block extent at 0 in the cache, block 2 was
\* served from the cache, without a lookup.
C6_Witness ==
    \E t \in Threads :
        /\ Resolved(t) /\ th[t].hit /\ ~th[t].looked
        /\ th[t].iblock = 2
        /\ th[t].ext = Extent(0, 9, 3 * BlockSize)
        /\ i_cached_extent[th[t].inode] = th[t].ext

\* C7 as claimed (P4): any two successful apfs_extent_read calls with the
\* same (inode, iblock) return equal extents, whatever was resolved
\* between them.
C7_Idempotence ==
    \A t, u \in Threads :
        (/\ Resolved(t) /\ Resolved(u)
         /\ th[t].inode = th[u].inode
         /\ th[t].iblock = th[u].iblock)
        => th[t].ext = th[u].ext

\* C7 amended: a call for (inode, iblock) that starts while the cache of
\* the inode still holds the extent an earlier successful call for the same
\* (inode, iblock) returned, succeeds and returns that same extent.
C7_SuccessiveEqual ==
    [][\A t, u \in Threads :
          (/\ Enters(t)
           /\ Resolved(u)
           /\ th[u].inode = th'[t].inode
           /\ th[u].iblock = th'[t].iblock
           /\ i_cached_extent[th[u].inode] = th[u].ext)
          => /\ th'[t].pc = "done" /\ th'[t].ret = 0
             /\ th'[t].ext = th[u].ext]_vars

\* C7 witness: two calls for the same (inode, iblock) have both returned,
\* the later one from the cache the earlier one filled, with equal extents.
C7_Witness ==
    \E t, u \in Threads :
        /\ t # u
        /\ Resolved(t) /\ Resolved(u)
        /\ th[t].inode = th[u].inode /\ th[t].iblock = th[u].iblock
        /\ th[u].looked /\ th[t].hit
        /\ th[t].ext = th[u].ext

\* ------------------------------------------------------------------------
\* Properties of mount and unmount (checked under SpecMount)
\* ------------------------------------------------------------------------

\* Every resource taken since the mount began has been given back once.
AllReleased == \A r \in Resources : res[r].rel = res[r].acq

\* C8: when apfs_fill_super has failed, at whichever step, every buffer
\* and node handle the earlier steps acquired has been released exactly
\* once, nothing is ever released that was not acquired, and the mount
\* state is freed and detached (s_fs_info is NULL).
C8_MountUnwinding ==
    /\ \A r \in Resources : res[r].rel <= res[r].acq
    /\ m.pc = "failed" =>
         /\ AllReleased
         /\ sb.s_fs_info = "NULL"
         /\ ~sbi.alive

\* A mount that failed at the root dentry, after all four handles and the
\* root inode were acquired.
C8_Witness ==
    /\ m.pc = "failed"
    /\ m.why = "d_make_root"
    /\ \A r \in {"bh_nxsb", "bh_apsb", "omap_root", "cat_root", "root_inode"} :
         res[r].acq >= 1

\* A mount that failed while parsing the options, with the container
\* superblock's buffer acquired and given back.
C8_WitnessOptions ==
    /\ m.pc = "failed"
    /\ m.why = "options"
    /\ res["bh_nxsb"].acq >= 1

\* C9: if block 0 has magic NXSB but a stored checksum that differs from
\* Fletcher-64 over its payload, the mount fails with -EFSCORRUPTED and
\* the container superblock's buffer is released.
C9_CorruptContainer ==
    (m.pc = "failed" /\ m.why = "nx_csum") =>
        /\ m.err = -EFSCORRUPTED
        /\ res["bh_nxsb"].rel = res["bh_nxsb"].acq

\* What the code does in the case of C9: the mount fails, the buffer is
\* released, and the error is -EINVAL.
C9_CodeBehaviour ==
    (m.pc = "failed" /\ m.why = "nx_csum") =>
        /\ m.err = -EINVAL
        /\ img.blocks["nxsb"].payload[2] = APFS_NX_MAGIC
        /\ ~ObjVerifyCsum(img.blocks["nxsb"])
        /\ res["bh_nxsb"].rel = res["bh_nxsb"].acq

\* A container superblock with the right magic and a bad checksum never
\* gets past apfs_map_main_super.
C9_NeverMapped ==
    (img.blocks["nxsb"].payload[2] = APFS_NX_MAGIC
        /\ ~ObjVerifyCsum(img.blocks["nxsb"])) =>
        m.pc \in {"unmounted", "map_main_super", "failed_main_super", "failed"}

\* C10: a mount reaches Ready only if every object block it read has a
\* stored checksum equal to Fletcher-64 over its payload.
C10_ChecksumOnEveryRead ==
    m.pc = "ready" => \A b \in m_reads : ObjVerifyCsum(img.blocks[b])

\* What the code guarantees at Ready: the container superblock and the
\* nodes the loader read have good checksums.
C10_CodeBehaviour ==
    m.pc = "ready" =>
        \A b \in m_reads \ {"nx_omap", "apsb", "vol_omap"} :
            ObjVerifyCsum(img.blocks[b])


\* The tests of the mount path at which the block reader gave no block.
ReadFailures ==
    {"read_nxsb", "read_nxsb_2", "read_nx_omap", "read_vsb", "read_vol_omap"}

\* C11: if the block reader fails to produce a block at any step of the
\* mount path (container superblock first or second read, container
\* object map, volume superblock, volume object map), the mount fails
\* with -EIO.
C11_IoErrorPropagation ==
    (m.pc = "failed" /\ m.why \in ReadFailures) => m.err = -EIO

\* What the code does in the case of C11: the mount fails and unwinds,
\* and the error is -EINVAL.
C11_CodeBehaviour ==
    (m.pc = "failed" /\ m.why \in ReadFailures) =>
        /\ m.err = -EINVAL
        /\ AllReleased
        /\ sb.s_fs_info = "NULL"


\* apfs_map_volume_super went past its volume selection: it asked the
\* block reader for the container object map.
VolumeSelected == "nx_omap" \in m_reads \/ m.why = "read_nx_omap"

\* The mount was refused at the volume selection.
VolumeRefused == m.pc = "failed" /\ m.why \in {"vol_range", "no_volume"}

\* C12: a volume slot outside the fs_oid[] array, or one whose fs_oid is
\* 0, makes the mount fail with -EINVAL without reading the container
\* object map or a volume superblock; for every accepted slot the read
\* of fs_oid[vol] lies inside the array.
C12_VolumeBounds ==
    /\ VolumeRefused =>
         /\ m.err = -EINVAL
         /\ m_reads \cap {"nx_omap", "vtable", "apsb"} = {}
    /\ VolumeSelected =>
         /\ sbi.s_vol_nr < NxMaxFileSystems
         /\ NxFsOid(sbi.s_vol_nr) # 0

\* What the code guarantees in the case of C12: a refused slot gives
\* -EINVAL before any further read, and an accepted slot lies inside the
\* block of the container superblock.
C12_CodeBehaviour ==
    /\ VolumeRefused =>
         /\ m.err = -EINVAL
         /\ m_reads \cap {"nx_omap", "vtable", "apsb"} = {}
    /\ VolumeSelected =>
         /\ NxSuperblockSize + 8 * (sbi.s_vol_nr + 1) < sb.s_blocksize
         /\ sbi.s_vol_nr < NxMaxFileSystems => NxFsOid(sbi.s_vol_nr) # 0

\* The slot "vol=1" of an image with one volume is refused.
C12_RefusedSlot ==
    /\ VolumeRefused
    /\ m.why = "no_volume"
    /\ sbi.s_vol_nr = 1


\* ------------------------------------------------------------------------
\* Properties of statfs (checked under SpecStatfs)
\* ------------------------------------------------------------------------

\* statfs has returned 0.
StatfsSucceeded == st.pc = "done" /\ st.err = 0

\* The volumes the container object map refers to.
VolumesOf(entries) == {entries[k].oid : k \in DOMAIN entries}

\* The block of the current (highest transaction) superblock of a volume.
CurrentBlock(entries, oid) ==
    LET own == {k \in DOMAIN entries : entries[k].oid = oid}
        last == CHOOSE k \in own : \A j \in own : entries[j].xid <= entries[k].xid
    IN entries[last].block

RECURSIVE SumOver(_, _)
\* The sum of fs_alloc_count over the current superblocks of a set of
\* volumes.
SumOver(entries, oids) ==
    IF oids = {} THEN 0
    ELSE LET o == CHOOSE x \in oids : TRUE
         IN FsAllocCount(CurrentBlock(entries, o)) + SumOver(entries, oids \ {o})

\* used_blocks with each volume counted once.
UsedOnce == U64(SumOver(cont.entries, VolumesOf(cont.entries)))

RECURSIVE SumAll(_, _)
\* The sum of fs_alloc_count over the first n entries.
SumAll(entries, n) ==
    IF n = 0 THEN 0
    ELSE FsAllocCount(entries[n].block) + SumAll(entries, n - 1)

\* used_blocks with each entry counted.
UsedPerEntry == U64(SumAll(cont.entries, Len(cont.entries)))

\* C13: on success statfs reports total_blocks = nx_block_count,
\* free_blocks = total_blocks - used_blocks and available_blocks =
\* free_blocks, where used_blocks is the sum of fs_alloc_count over the
\* volumes the container object map refers to, each volume counted once.
C13_StatfsFree ==
    StatfsSucceeded =>
        /\ st.buf.f_blocks = cont.nx_block_count
        /\ st.buf.f_bfree = FreeBlocks(st.buf.f_blocks, UsedOnce)
        /\ st.buf.f_bavail = st.buf.f_bfree

\* What the code reports: every entry of the object map's root node is
\* counted, one per transaction of a volume.
C13_CodeBehaviour ==
    StatfsSucceeded =>
        /\ st.buf.f_blocks = cont.nx_block_count
        /\ st.buf.f_bfree = FreeBlocks(st.buf.f_blocks, UsedPerEntry)
        /\ st.buf.f_bavail = st.buf.f_bfree

\* With one entry per volume the report is the one of C13.
C13_OneEntryPerVolume ==
    (StatfsSucceeded /\ Cardinality(VolumesOf(cont.entries)) = Len(cont.entries))
        => st.buf.f_bfree = FreeBlocks(st.buf.f_blocks, UsedOnce)

\* Two volumes with 10 and 25 allocated blocks in a container of 100.
C13_TwoVolumes ==
    /\ StatfsSucceeded
    /\ cont.nx_block_count = 100
    /\ Len(cont.entries) = 2
    /\ VolumesOf(cont.entries) = {1, 2}
    /\ st.buf.f_bfree = 65


\* Every buffer and handle statfs took has been given back once.
StatAllReleased == \A r \in StatResources : st.held[r].rel = st.held[r].acq

\* C14: if reading a volume superblock or decoding an entry of the
\* container object map fails during used-block counting, statfs returns
\* an error, reports no free_blocks or available_blocks computed from a
\* partial total, and has released the node handle and every buffer it
\* acquired.
C14_StatfsPartialFailure ==
    /\ \A r \in StatResources : st.held[r].rel <= st.held[r].acq
    /\ (st.pc = "done" /\ st.why \in {"read_vsb", "bad_index"}) =>
         /\ st.err # 0
         /\ st.buf.f_bfree = Unset
         /\ st.buf.f_bavail = Unset
         /\ StatAllReleased
    /\ (st.pc = "done" /\ st.err # 0) =>
         /\ st.buf.f_bfree = Unset
         /\ st.buf.f_bavail = Unset
         /\ StatAllReleased

\* statfs failed at the read of a volume superblock after it had added
\* an earlier volume to the total.
C14_Witness ==
    /\ st.pc = "done"
    /\ st.why = "read_vsb"
    /\ st.i >= 1
    /\ st.count > 0
    /\ st.held["bh_vsb"].acq >= 1

\* statfs failed at an entry it could not decode, after it had added an
\* earlier volume to the total.
C14_WitnessDecode ==
    /\ st.pc = "done"
    /\ st.why = "bad_index"
    /\ st.count > 0

\* The statfs half of C11: a block read that fails during used-block
\* counting makes statfs fail with -EIO.
C11_StatfsIoError ==
    (st.pc = "done" /\ st.why \in {"read_nx_omap", "read_vsb"}) => st.err = -EIO


\* ------------------------------------------------------------------------
\* Properties of the mount options (checked under SpecMount)
\* ------------------------------------------------------------------------

\* A segment of the form uid=<u32>, gid=<u32> or vol=<u32>.
SegOk(seg) == seg.key \in {"uid", "gid", "vol"} /\ seg.digits /\ ~seg.big

\* Every non-empty segment of the option string is of that form.
WellFormed(data) == \A k \in DOMAIN data : data[k].key = "" \/ SegOk(data[k])

\* The option string gives this key.
Given(data, key) == \E k \in DOMAIN data : data[k].key = key

\* The value of the last vol= segment, 0 without one.
SlotOf(data) ==
    LET vols == {k \in DOMAIN data : data[k].key = "vol"}
    IN IF vols = {} THEN 0
       ELSE data[CHOOSE k \in vols : \A j \in vols : j <= k].val

\* The override flags of an option string.
FlagsOf(data) ==
    (IF Given(data, "uid") THEN APFS_UID_OVERRIDE ELSE 0)
        + (IF Given(data, "gid") THEN APFS_GID_OVERRIDE ELSE 0)

\* parse_options returned 0; it returned an error.
OptionsAccepted ==
    m.pc \notin {"unmounted", "map_main_super", "parse_options"}
        /\ m.why \notin {"kzalloc", "set_blocksize", "read_nxsb",
                         "bad_blocksize", "read_nxsb_2", "nx_magic",
                         "nx_csum", "options"}

OptionsRefused == m.why = "options"

\* C15: parse_options succeeds exactly when every non-empty segment is
\* uid=<u32>, gid=<u32> or vol=<u32>, and fails with -EINVAL otherwise;
\* empty segments have no effect; without options the slot is 0 and no
\* override flag is set; uid and gid set their flag only when given.
C15_OptionsParsing ==
    /\ OptionsAccepted =>
         /\ WellFormed(m.data)
         /\ sbi.s_vol_nr = SlotOf(m.data)
         /\ sbi.s_flags = FlagsOf(m.data)
    /\ OptionsRefused =>
         /\ ~WellFormed(m.data)
         /\ m.err = -EINVAL

\* What the code does: accepted strings are the well-formed ones with
\* their slot and flags, and a refusal gives -ERANGE for a number beyond
\* INT_MAX and -EINVAL otherwise.
C15_CodeBehaviour ==
    /\ OptionsAccepted =>
         /\ WellFormed(m.data)
         /\ sbi.s_vol_nr = SlotOf(m.data)
         /\ sbi.s_flags = FlagsOf(m.data)
    /\ OptionsRefused =>
         /\ m.err \in {-EINVAL, -ERANGE}
         /\ m.err = -ERANGE =>
              \E k \in DOMAIN m.data : m.data[k].digits /\ m.data[k].big
         /\ WellFormed(m.data) => (Given(m.data, "uid") \/ Given(m.data, "gid"))

\* An option string with an empty segment between uid= and gid= was
\* accepted with both flags set.
C15_EmptySegmentSkipped ==
    /\ OptionsAccepted
    /\ Len(m.data) = 3
    /\ sbi.s_flags = APFS_UID_OVERRIDE + APFS_GID_OVERRIDE
    /\ sbi.s_uid = 5
    /\ sbi.s_gid = 7


\* ------------------------------------------------------------------------
\* Properties of the mount sequence (checked under SpecMount)
\* ------------------------------------------------------------------------

\* The steps of apfs_fill_super in the order of the mount state machine,
\* by the position that attempts them.
MountSteps ==
    <<"map_main_super", "parse_options", "map_volume_super", "read_omap",
      "read_catalog", "get_root", "ready">>

\* The labels of the unwinding, in the order they run.
UnwindLabels ==
    <<"failed_mount", "failed_cat", "failed_omap", "failed_volume_super",
      "failed_main_super", "failed">>

IndexIn(seq, x) == CHOOSE k \in DOMAIN seq : seq[k] = x

InSeq(seq, x) == \E k \in DOMAIN seq : seq[k] = x

\* The four handles of the mount state.
MountHandles ==
    <<sbi.s_mnode_bh, sbi.s_vnode_bh, sbi.s_omap_root, sbi.s_cat_root>>

\* One move of the mount: to the next step with no error, from a step to
\* the unwinding with an error, or along the unwinding.
StepMove ==
    \/ m'.pc = m.pc
    \/ m.pc \in {"unmounted", "failed", "released"}
         /\ m'.pc \in {"map_main_super", "failed"}
    \/ InSeq(MountSteps, m.pc) /\ InSeq(MountSteps, m'.pc)
         /\ IndexIn(MountSteps, m'.pc) = IndexIn(MountSteps, m.pc) + 1
         /\ m'.err = 0
    \/ InSeq(MountSteps, m.pc) /\ m.pc # "ready"
         /\ InSeq(UnwindLabels, m'.pc) /\ m'.err # 0
    \/ InSeq(UnwindLabels, m.pc) /\ InSeq(UnwindLabels, m'.pc)
         /\ IndexIn(UnwindLabels, m'.pc) = IndexIn(UnwindLabels, m.pc) + 1
         /\ m'.err = m.err
    \/ m.pc = "ready" /\ m'.pc = "put_super"
    \/ m.pc = "put_super" /\ m'.pc = "released"

\* C16: the mount runs its steps in the order Init, ContainerMapped,
\* OptionsParsed, VolumeMapped, OmapLoaded, CatalogLoaded, Ready; no step
\* is attempted after an earlier one failed; the catalog root is resolved
\* only with the volume omap root handle set; Ready is reached only if
\* every earlier step succeeded, and from Ready until apfs_put_super the
\* four mount handles are not modified.
C16_StepOrdering ==
    /\ [][StepMove]_vars
    /\ [](m.pc \in {"read_catalog", "get_root"} =>
            sbi.s_omap_root = "omap_root" /\ m.err = 0)
    /\ [](m.pc = "ready" =>
            /\ m.err = 0
            /\ MountHandles = <<"bh_nxsb", "bh_apsb", "omap_root", "cat_root">>
            /\ sb.s_root = "root_inode"
            /\ {"nxsb", "apsb", "omap_root", "cat_root"} \subseteq m_reads)
    /\ [][m.pc = "ready" => MountHandles' = MountHandles]_vars

\* A mount with uid= and gid= options is Ready, every step done.
C16_Witness ==
    /\ m.pc = "ready"
    /\ sbi.s_flags = APFS_UID_OVERRIDE + APFS_GID_OVERRIDE
    /\ m_reads = ObjBlocks

\* The host has dropped the root of a Ready mount and apfs_put_super is
\* about to run, the handles still in place.
C16_WitnessUnmount ==
    /\ m.pc = "put_super"
    /\ MountHandles = <<"bh_nxsb", "bh_apsb", "omap_root", "cat_root">>


\* The mount handles in the order apfs_fill_super acquires them, and in
\* the reverse order.
AcquisitionOrder == <<"bh_nxsb", "bh_apsb", "omap_root", "cat_root">>

ReverseOrder == <<"cat_root", "omap_root", "bh_apsb", "bh_nxsb">>

\* C17: apfs_put_super releases the handles in the reverse of the order
\* in which the mount acquired them (catalog root, volume omap root,
\* volume superblock buffer, container superblock buffer), each exactly
\* once, and then detaches and frees the mount state.
C17_UnmountOrder ==
    m.pc = "released" =>
        /\ m.log = ReverseOrder
        /\ AllReleased
        /\ sb.s_fs_info = "NULL"
        /\ ~sbi.alive

\* What apfs_put_super does: every handle is released once and the mount
\* state is detached and freed, the container superblock's buffer being
\* released before the volume superblock's.
C17_CodeBehaviour ==
    m.pc = "released" =>
        /\ m.log = <<"cat_root", "omap_root", "bh_nxsb", "bh_apsb">>
        /\ AllReleased
        /\ sb.s_fs_info = "NULL"
        /\ ~sbi.alive

\* The unwinding of a failed mount releases in the reverse order.
C17_UnwindingReverses ==
    m.pc = "failed" =>
        \E k \in 0 .. 4 :
            m.log = SubSeq(ReverseOrder, 5 - k, 4)


\* ------------------------------------------------------------------------
\* Properties of the extent cache under concurrency (checked under Spec)
\* ------------------------------------------------------------------------

\* The extent e is, in all three fields, one record of file f.
WholeRecord(f, e) ==
    \E r \in catalog[f] : ~BadRecordSize(r) /\ DecodeExtent(r) = e

\* C18: in every reachable state the cache of an inode is empty
\* (len = 0) or equal, in all three fields, to one extent record of that
\* inode's catalog entries, and every extent copied out to a caller is
\* such a whole record.
C18_CacheValidity ==
    /\ \A i \in Inodes :
         i_extent_id[i] # 0 =>
            \/ i_cached_extent[i].len = 0
            \/ WholeRecord(i_extent_id[i], i_cached_extent[i])
    /\ \A t \in Threads :
         Resolved(t) => WholeRecord(i_extent_id[th[t].inode], th[t].ext)

\* What the code guarantees: the cache and every extent copied out are
\* never a mix of fields, they are a whole record of some file that the
\* slab object has stood for.
C18_NeverTorn ==
    /\ \A i \in Inodes :
         \/ i_cached_extent[i].len = 0
         \/ \E f \in Files : WholeRecord(f, i_cached_extent[i])
    /\ \A t \in Threads :
         Resolved(t) => \E f \in Files : WholeRecord(f, th[t].ext)

\* Two threads have resolved on one inode at once and both installed.
C18_Race ==
    /\ th["t1"].inode = th["t2"].inode
    /\ Resolved("t1") /\ Resolved("t2")
    /\ ~th["t1"].hit /\ ~th["t2"].hit
    /\ th["t1"].ext # th["t2"].ext


\* Thread t holds the extent lock of some inode.
HoldsLock(t) == \E i \in Inodes : i_extent_lock[i] = t

\* C19: the per-inode extent lock is never held while a catalog lookup
\* is in progress, and on every path (hit, miss, lookup error,
\* corruption, allocation failure) it has been released when the
\* function returns; a thread in the lookup does not keep another
\* resolve on the same inode from the lock.
C19_LockDiscipline ==
    \A t \in Threads :
        /\ th[t].pc \in {"lookup53", "install95", "done", "idle"} => ~HoldsLock(t)
        /\ th[t].pc = "lookup53" => i_extent_lock[th[t].inode] = NoThread

\* Both threads are in the catalog lookup for the same inode: the second
\* one got the lock while the first one was in its lookup.
C19_Witness ==
    /\ th["t1"].pc = "lookup53"
    /\ th["t2"].pc = "lookup53"
    /\ th["t1"].inode = th["t2"].inode

\* A call has returned an error with the lock free.
C19_WitnessError ==
    \E t \in Threads :
        /\ th[t].pc = "done"
        /\ th[t].ret = -EFSCORRUPTED
        /\ i_extent_lock[th[t].inode] = NoThread


\* ------------------------------------------------------------------------
\* Properties of a failed resolve (checked under Spec)
\* ------------------------------------------------------------------------

\* Thread t's call fails in this step.
FailsNow(t) == th[t].pc = "lookup53" /\ th'[t].pc = "done" /\ th'[t].ret # 0

\* Thread t's call, which will go to the catalog, enters in this step.
MissesNow(t) == th[t].pc = "idle" /\ th'[t].pc = "lookup53"

\* A call has freed what it allocated.
AllFreed(a) == a.key = 0 /\ a.query = 0

\* C20: a resolve that fails with NotFound, Corrupt, an I/O error or an
\* allocation failure leaves the extent cache of its inode and of every
\* other inode unchanged and has freed the query and the key it
\* allocated; once it has returned, nothing of it is left for later calls.
C20_FailedResolveFrame ==
    /\ [][\A t \in Threads :
            (FailsNow(t) \/ MissesNow(t)) =>
                /\ i_cached_extent' = i_cached_extent
                /\ i_extent_lock' = i_extent_lock
                /\ i_extent_id' = i_extent_id
                /\ \A u \in Threads \ {t} : th'[u] = th[u]]_vars
    /\ [][\A t \in Threads :
            (th[t].pc = "done" /\ th'[t].pc # "done") => th'[t] = Idle]_vars
    /\ [](\A t \in Threads :
            /\ th[t].alloc.key \in {0, 1} /\ th[t].alloc.query \in {0, 1}
            /\ th[t].pc \in {"done", "idle"} => AllFreed(th[t].alloc))

\* A call has looked up the catalog and failed with Corrupt while its
\* inode's cache held an extent.
C20_Witness ==
    \E t \in Threads :
        /\ th[t].pc = "done"
        /\ th[t].ret = -EFSCORRUPTED
        /\ th[t].looked
        /\ AllFreed(th[t].alloc)
        /\ i_cached_extent[th[t].inode].len > 0

\* A call failed for want of memory.
C20_WitnessNoMemory ==
    \E t \in Threads : th[t].pc = "done" /\ th[t].ret = -ENOMEM

\* A call holds its key and its query, about to install.
C20_WitnessHolding ==
    \E t \in Threads :
        th[t].pc = "install95" /\ th[t].alloc = [key |-> 1, query |-> 1]

\* A call failed with NotFound, and one with an I/O error.
C20_WitnessNotFound ==
    \E t \in Threads : th[t].pc = "done" /\ th[t].ret = -ENODATA

C20_WitnessIo ==
    \E t \in Threads : th[t].pc = "done" /\ th[t].ret = -EIO

\* ------------------------------------------------------------------------
\* Properties of the inode slab (checked under Spec)
\* ------------------------------------------------------------------------

\* This step hands slab object i out for file f (apfs_alloc_inode).
HandedOut(i, f) == i_extent_id[i] = 0 /\ i_extent_id'[i] = f

\* The cache e holds an extent that is no record of file f: it was cached
\* for another file.
CachedForAnother(f, e) == e.len # 0 /\ ~WholeRecord(f, e)

\* C21: after an inode is destroyed and its slab object is handed out
\* again by apfs_alloc_inode for a different file, the new inode's extent
\* cache is empty (len = 0), so a resolve on the new inode never returns
\* an extent that was cached for the previous inode.
C21_NoStaleCache ==
    /\ [][\A i \in Inodes, f \in Files :
            HandedOut(i, f) /\ CachedForAnother(f, i_cached_extent[i])
                => i_cached_extent'[i].len = 0]_vars
    /\ [](\A t \in Threads :
            Resolved(t) /\ th[t].hit
                => ~CachedForAnother(i_extent_id[th[t].inode], th[t].ext))

\* What the code does: apfs_alloc_inode leaves the cache of the object as
\* the slab holds it, and so does the return of the object to the slab;
\* only a successful lookup writes the cache.
C21_CodeBehaviour ==
    [][\A i \in Inodes :
            i_extent_id'[i] # i_extent_id[i]
                => i_cached_extent'[i] = i_cached_extent[i]]_vars

\* A slab object stands for a file while its cache holds an extent of
\* another file, and no thread is at work on it: the object was reused.
C21_Reused ==
    \E i \in Inodes :
        /\ i_extent_id[i] # 0
        /\ CachedForAnother(i_extent_id[i], i_cached_extent[i])
        /\ \A t \in Threads : th[t].pc = "idle"

\* A resolve on the new inode hit the cache and returned an extent that
\* was cached for the previous file.
C21_StaleHit ==
    \E t \in Threads :
        /\ Resolved(t) /\ th[t].hit
        /\ CachedForAnother(i_extent_id[th[t].inode], th[t].ext)

\* ------------------------------------------------------------------------
\* The free-block bound of statfs (checked under SpecStatfs)
\* ------------------------------------------------------------------------

\* C22: for every container state on which statfs succeeds, free_blocks
\* <= total_blocks; when the summed fs_alloc_count of the volumes exceeds
\* nx_block_count, the subtraction total - used does not wrap to a huge
\* free_blocks value.
C22_FreeBlockBound ==
    StatfsSucceeded =>
        /\ st.buf.f_bfree <= st.buf.f_blocks
        /\ st.buf.f_bavail <= st.buf.f_blocks

\* What the code guarantees: the bound holds when the blocks counted do
\* not exceed nx_block_count, and the difference has wrapped when they do.
C22_CodeBehaviour ==
    StatfsSucceeded =>
        IF st.count <= st.buf.f_blocks
        THEN st.buf.f_bfree = st.buf.f_blocks - st.count
        ELSE st.buf.f_bfree = Word - (st.count - st.buf.f_blocks)

\* statfs succeeded on a container whose volumes, one object-map entry
\* each, have more blocks allocated than the container has, and reports
\* more free blocks than there are blocks.
C22_Wrapped ==
    /\ StatfsSucceeded
    /\ Cardinality(VolumesOf(cont.entries)) = Len(cont.entries)
    /\ UsedOnce > cont.nx_block_count
    /\ st.buf.f_bfree > st.buf.f_blocks

====
